---- MODULE Spec2Model ----
(***************************************************************************)
(* Adaptive traffic light controller for one 4-way intersection            *)
(* (src/code.cpp): main(), IntersectionController and TrafficLight.         *)
(*                                                                         *)
(* The green allocator works in IEEE-754 binary64 ("double"):               *)
(*     round((nsd / total) * extra_budget)                                  *)
(* The quotient and the product are each rounded to 53 significant bits     *)
(* (round to nearest, ties to even) before std::round is applied, so the    *)
(* model carries 53-bit significands as four limbs                          *)
(*     h * 2^52 + a * 2^32 + b * 2^12 + c                                   *)
(* to stay inside the integer range of the model checker.                   *)
(***************************************************************************)
EXTENDS Integers, Sequences, FiniteSets

(***************************************************************************)
(* Bounds of the model                                                     *)
(***************************************************************************)
MaxCycles == 2          \* cycle counts entered at the first prompt: 0..MaxCycles
MaxRunDensity == 1      \* densities used while a whole run is explored
MaxDensity == 100       \* densities fed to the allocator alone
NegDensity == 2         \* the allocator is also fed densities down to -NegDensity
MaxExtra == 4           \* extra budgets 0..MaxExtra besides the one of main()
MaxSwapDensity == 100   \* densities of a random run whose second draw swaps the first

(***************************************************************************)
(* binary64 arithmetic on small operands                                   *)
(***************************************************************************)
RECURSIVE Pow2(_)
Pow2(n) == IF n = 0 THEN 1 ELSE 2 * Pow2(n - 1)

\* floor(log2(n / d)) for positive integers n, d (the allocator divides only
\* when total > 0; outside that domain the recursion is cut off at 0)
RECURSIVE Exponent(_, _)
Exponent(n, d) ==
    IF n <= 0 \/ d <= 0 THEN 0
    ELSE IF n >= 2 * d THEN Exponent(n, 2 * d) + 1
    ELSE IF n < d THEN Exponent(2 * n, d) - 1
    ELSE 0

\* floor(log2(n)) for a positive integer n
FloorLog2(n) == Exponent(n, 1)

\* carry propagation: every limb back into its range
Normalise(h, a, b, c) ==
    LET b1 == b + (c \div Pow2(12))
        a1 == a + (b1 \div Pow2(20))
    IN  [h |-> h + (a1 \div Pow2(20)), a |-> a1 % Pow2(20),
         b |-> b1 % Pow2(20), c |-> c % Pow2(12)]

\* n / d in binary64, n and d positive integers (exactly representable):
\* the value is (h*2^52 + a*2^32 + b*2^12 + c) * 2^(exp - 52)
DivDouble(n, d) ==
    LET g  == Exponent(n, d)
        nn == IF g < 0 THEN n * Pow2(0 - g) ELSE n
        dd == IF g > 0 THEN d * Pow2(g) ELSE d
        r0 == nn - dd
        a  == (r0 * Pow2(20)) \div dd
        r1 == (r0 * Pow2(20)) % dd
        b  == (r1 * Pow2(20)) \div dd
        r2 == (r1 * Pow2(20)) % dd
        c  == (r2 * Pow2(12)) \div dd
        r3 == (r2 * Pow2(12)) % dd
        up == (2 * r3 > dd) \/ (2 * r3 = dd /\ c % 2 = 1)
        m  == Normalise(1, a, b, IF up THEN c + 1 ELSE c)
    IN  [exp |-> g, h |-> m.h, a |-> m.a, b |-> m.b, c |-> m.c]

\* x * k in binary64, x a positive double and k a positive integer:
\* the exact product, then rounded to 53 significant bits, ties to even
MulDouble(x, k) ==
    LET p    == Normalise(x.h * k, x.a * k, x.b * k, x.c * k)
        s    == FloorLog2(p.h)
        low  == p.c % Pow2(s)
        keep == p.c - low
        half == IF s = 0 THEN 0 ELSE Pow2(s - 1)
        up   == s > 0 /\ ((low > half) \/
                          (low = half /\ (p.c \div Pow2(s)) % 2 = 1))
        m    == Normalise(p.h, p.a, p.b, IF up THEN keep + Pow2(s) ELSE keep)
    IN  [exp |-> x.exp, h |-> m.h, a |-> m.a, b |-> m.b, c |-> m.c]

\* variant: the conversion to int without std::round (truncation)
TruncDouble(x) ==
    IF x.exp >= 0
    THEN x.h * Pow2(x.exp)
    ELSE x.h \div Pow2(0 - x.exp)

\* std::round of a positive double, as an integer: half away from zero
RoundDouble(x) ==
    IF x.exp >= 0
    THEN LET m == Normalise(x.h * Pow2(x.exp), x.a * Pow2(x.exp),
                            x.b * Pow2(x.exp), x.c * Pow2(x.exp))
         IN  m.h + (IF m.a >= Pow2(19) THEN 1 ELSE 0)
    ELSE LET t == 0 - x.exp
         IN  (x.h \div Pow2(t)) + ((x.h \div Pow2(t - 1)) % 2)

\* static_cast<int>(round((d / total) * extra_budget)), total > 0, extra >= 0
RoundedShare(d, total, extra_budget) ==
    IF d = 0 \/ extra_budget = 0 THEN 0
    ELSE IF d > 0
         THEN RoundDouble(MulDouble(DivDouble(d, total), extra_budget))
         ELSE 0 - RoundDouble(MulDouble(DivDouble(0 - d, total), extra_budget))

\* variant: only the lower bound is enforced
clampLowerOnly(v, lo, hi) == IF v < lo THEN lo ELSE v

\* std::clamp(v, lo, hi)
clamp(v, lo, hi) == IF v < lo THEN lo ELSE IF hi < v THEN hi ELSE v


(***************************************************************************)
(* Configurations and inputs                                               *)
(***************************************************************************)
\* the constructor arguments main() passes: controller(5, 40, 3, 1, ...)
MainConfig ==
    [min_green |-> 5, max_green |-> 40, yellow_time |-> 3, all_red_time |-> 1]

\* constructor arguments explored for a whole run (max_green >= min_green >= 0,
\* yellow_time >= 0, all_red_time >= 0)
RunConfigs ==
    { MainConfig,
      [min_green |-> 0,  max_green |-> 0,  yellow_time |-> 0, all_red_time |-> 0],
      [min_green |-> 0,  max_green |-> 3,  yellow_time |-> 2, all_red_time |-> 0],
      [min_green |-> 11, max_green |-> 12, yellow_time |-> 0, all_red_time |-> 2] }

\* constructor arguments explored for the allocator alone
AllocConfigs ==
    { [min_green |-> m, max_green |-> m + e,
       yellow_time |-> MainConfig.yellow_time,
       all_red_time |-> MainConfig.all_red_time] :
          m \in {0, 5, 11}, e \in (0..MaxExtra) \cup {35} }

RunDensities == 0..MaxRunDensity
AllocDensities == (0 - NegDensity)..MaxDensity

(***************************************************************************)
(* TrafficLight                                                            *)
(***************************************************************************)
\* the default member initialisers of struct TrafficLight
TrafficLight == [state |-> "RED", green_duration |-> 10, yellow_duration |-> 3]

\* the controller does not exist before main() constructs it
NoLight == [state |-> "NONE", green_duration |-> 0, yellow_duration |-> 0]

\* "(will last until other gets greens)": a RED line carries no number
NoDuration == 0 - 1

VARIABLES
    pc,             \* position in main() / simulate_with_inputs() / run_phase()
    step,           \* statement of run_phase() reached: 1..12
    ns, ew,         \* the two TrafficLight members of the controller
    min_green, max_green, yellow_time, all_red_time,
    cycles,         \* cycle count read by main(), copied into the controller
    realtime_delay,
    mode,           \* input mode read by main()
    ns_density, ew_density,   \* arguments of simulate_with_inputs()
    c,              \* loop variable of simulate_with_inputs()
    rc,             \* loop variable of the random branch of main()
    exit_code,      \* value returned by main(), -1 while running
    trace           \* phase lines printed and wait_and_print calls, in order

vars == <<pc, step, ns, ew, min_green, max_green, yellow_time, all_red_time,
          cycles, realtime_delay, mode, ns_density, ew_density, c, rc,
          exit_code, trace>>

\* main() before the first prompt
Init ==
    /\ pc = "read_cycles"
    /\ step = 0
    /\ ns = NoLight /\ ew = NoLight
    /\ min_green = 0 /\ max_green = 0 /\ yellow_time = 0 /\ all_red_time = 0
    /\ cycles = 0
    /\ realtime_delay = FALSE
    /\ mode = 0
    /\ ns_density = 0 /\ ew_density = 0
    /\ c = 0 /\ rc = 0
    /\ exit_code = 0 - 1
    /\ trace = <<>>

(***************************************************************************)
(* main()                                                                  *)
(***************************************************************************)
\* if (!(cin >> cycles)) return 0;
\* variant: a failed read of the cycle count is reported as an error
main_read_cycles_fail_status ==
    /\ pc = "read_cycles"
    /\ pc' = "exited"
    /\ exit_code' = 1
    /\ UNCHANGED <<step, ns, ew, min_green, max_green, yellow_time,
                   all_red_time, cycles, realtime_delay, mode, ns_density,
                   ew_density, c, rc, trace>>

main_read_cycles_fail ==
    /\ pc = "read_cycles"
    /\ pc' = "exited"
    /\ exit_code' = 0
    /\ UNCHANGED <<step, ns, ew, min_green, max_green, yellow_time,
                   all_red_time, cycles, realtime_delay, mode, ns_density,
                   ew_density, c, rc, trace>>

main_read_cycles ==
    /\ pc = "read_cycles"
    /\ \E n \in 0..MaxCycles : cycles' = n
    /\ pc' = "read_options"
    /\ UNCHANGED <<step, ns, ew, min_green, max_green, yellow_time,
                   all_red_time, realtime_delay, mode, ns_density,
                   ew_density, c, rc, exit_code, trace>>

\* variant: the constructor body does not copy yellow_time into the lights
ConstructorKeepsDefaultYellow(cfg, realtime) ==
    /\ min_green' = cfg.min_green
    /\ max_green' = cfg.max_green
    /\ yellow_time' = cfg.yellow_time
    /\ all_red_time' = cfg.all_red_time
    /\ realtime_delay' = realtime
    /\ ns' = TrafficLight
    /\ ew' = TrafficLight

\* IntersectionController(minG, maxG, yellow, allred, cycles_, realtime)
Constructor(cfg, realtime) ==
    /\ min_green' = cfg.min_green
    /\ max_green' = cfg.max_green
    /\ yellow_time' = cfg.yellow_time
    /\ all_red_time' = cfg.all_red_time
    /\ realtime_delay' = realtime
    /\ ns' = [TrafficLight EXCEPT !.yellow_duration = cfg.yellow_time]
    /\ ew' = [TrafficLight EXCEPT !.yellow_duration = cfg.yellow_time]

\* cin >> mode; cin >> realtime; the controller is constructed
main_construct ==
    /\ pc = "read_options"
    /\ \E m \in {1, 2}, rt \in BOOLEAN, cfg \in RunConfigs :
          /\ mode' = m
          /\ Constructor(cfg, rt)
          /\ pc' = IF m = 1 THEN "manual_input" ELSE "random_loop"
    /\ rc' = 0
    /\ UNCHANGED <<step, cycles, ns_density, ew_density, c, exit_code, trace>>

\* mode == 1: the two densities are read once, simulate_with_inputs is called
main_manual ==
    /\ pc = "manual_input"
    /\ \E a \in RunDensities, b \in RunDensities :
          ns_density' = a /\ ew_density' = b
    /\ c' = 1
    /\ pc' = "sim_loop"
    /\ UNCHANGED <<step, ns, ew, min_green, max_green, yellow_time,
                   all_red_time, cycles, realtime_delay, mode, rc,
                   exit_code, trace>>

\* for (int c = 0; c < cycles; ++c) { draw ns_d, ew_d; simulate_with_inputs }
main_random_draw ==
    /\ pc = "random_loop"
    /\ rc < cycles
    /\ \E a \in RunDensities, b \in RunDensities :
          ns_density' = a /\ ew_density' = b
    /\ c' = 1
    /\ pc' = "sim_loop"
    /\ UNCHANGED <<step, ns, ew, min_green, max_green, yellow_time,
                   all_red_time, cycles, realtime_delay, mode, rc,
                   exit_code, trace>>

main_random_end ==
    /\ pc = "random_loop"
    /\ ~(rc < cycles)
    /\ pc' = "finish"
    /\ UNCHANGED <<step, ns, ew, min_green, max_green, yellow_time,
                   all_red_time, cycles, realtime_delay, mode, ns_density,
                   ew_density, c, rc, exit_code, trace>>

\* "Simulation finished."; return 0;
main_finish ==
    /\ pc = "finish"
    /\ pc' = "exited"
    /\ exit_code' = 0
    /\ UNCHANGED <<step, ns, ew, min_green, max_green, yellow_time,
                   all_red_time, cycles, realtime_delay, mode, ns_density,
                   ew_density, c, rc, trace>>

(***************************************************************************)
(* IntersectionController::simulate_with_inputs                            *)
(***************************************************************************)
\* variant: the body runs once before the loop test (do-while)
simulate_next_cycle_dowhile ==
    /\ pc = "sim_loop"
    /\ (c <= cycles \/ c = 1)
    /\ pc' = "compute"
    /\ UNCHANGED <<step, ns, ew, min_green, max_green, yellow_time,
                   all_red_time, cycles, realtime_delay, mode, ns_density,
                   ew_density, c, rc, exit_code, trace>>

\* for (int c = 1; c <= cycles; ++c): the loop test succeeds
simulate_next_cycle ==
    /\ pc = "sim_loop"
    /\ c <= cycles
    /\ pc' = "compute"
    /\ UNCHANGED <<step, ns, ew, min_green, max_green, yellow_time,
                   all_red_time, cycles, realtime_delay, mode, ns_density,
                   ew_density, c, rc, exit_code, trace>>

\* variant: the loop test is c < cycles, the call returns one cycle early
simulate_return_early ==
    /\ pc = "sim_loop"
    /\ ~(c < cycles)
    /\ IF mode = 1
       THEN pc' = "finish" /\ rc' = rc
       ELSE pc' = "random_loop" /\ rc' = rc + 1
    /\ UNCHANGED <<step, ns, ew, min_green, max_green, yellow_time,
                   all_red_time, cycles, realtime_delay, mode, ns_density,
                   ew_density, c, exit_code, trace>>

\* the loop test fails: return to main()
simulate_return ==
    /\ pc = "sim_loop"
    /\ ~(c <= cycles)
    /\ IF mode = 1
       THEN pc' = "finish" /\ rc' = rc
       ELSE pc' = "random_loop" /\ rc' = rc + 1
    /\ UNCHANGED <<step, ns, ew, min_green, max_green, yellow_time,
                   all_red_time, cycles, realtime_delay, mode, ns_density,
                   ew_density, c, exit_code, trace>>

(***************************************************************************)
(* IntersectionController::compute_and_set_green                           *)
(***************************************************************************)
\* double total = nsd + ewd;
Total(nsd, ewd) == nsd + ewd

\* variant: the share of the other direction is used (densities swapped)
GreenForSwapped(d, total, minG, maxG) ==
    clamp(minG + RoundedShare(total - d, total, maxG - minG), minG, maxG)

\* base + static_cast<int>(round((d / total) * extra_budget)), then clamped
GreenFor(d, total, minG, maxG) ==
    clamp(minG + RoundedShare(d, total, maxG - minG), minG, maxG)

\* variant: the early return leaves the green durations as they were
compute_zero_keep ==
    /\ pc = "compute"
    /\ Total(ns_density, ew_density) <= 0
    /\ pc' = "run_phase"
    /\ step' = 1
    /\ UNCHANGED <<ns, ew, min_green, max_green, yellow_time, all_red_time,
                   cycles, realtime_delay, mode, ns_density, ew_density, c,
                   rc, exit_code, trace>>

\* total <= 0.0: both lights get min_green, early return
compute_zero ==
    /\ pc = "compute"
    /\ Total(ns_density, ew_density) <= 0
    /\ ns' = [ns EXCEPT !.green_duration = min_green]
    /\ ew' = [ew EXCEPT !.green_duration = min_green]
    /\ pc' = "run_phase"
    /\ step' = 1
    /\ UNCHANGED <<min_green, max_green, yellow_time, all_red_time, cycles,
                   realtime_delay, mode, ns_density, ew_density, c, rc,
                   exit_code, trace>>

\* total > 0: proportional share, clamp, yellow durations rewritten
\* variant: EW is given what NS left of the budget
compute_share_remainder ==
    /\ pc = "compute"
    /\ ~(Total(ns_density, ew_density) <= 0)
    /\ LET total == Total(ns_density, ew_density)
           share == RoundedShare(ns_density, total, max_green - min_green)
       IN  /\ ns' = [ns EXCEPT
                       !.green_duration =
                           clamp(min_green + share, min_green, max_green),
                       !.yellow_duration = yellow_time]
           /\ ew' = [ew EXCEPT
                       !.green_duration =
                           clamp(max_green - share, min_green, max_green),
                       !.yellow_duration = yellow_time]
    /\ pc' = "run_phase"
    /\ step' = 1
    /\ UNCHANGED <<min_green, max_green, yellow_time, all_red_time, cycles,
                   realtime_delay, mode, ns_density, ew_density, c, rc,
                   exit_code, trace>>

compute_share ==
    /\ pc = "compute"
    /\ ~(Total(ns_density, ew_density) <= 0)
    /\ LET total == Total(ns_density, ew_density)
       IN  /\ ns' = [ns EXCEPT
                       !.green_duration =
                           GreenFor(ns_density, total, min_green, max_green),
                       !.yellow_duration = yellow_time]
           /\ ew' = [ew EXCEPT
                       !.green_duration =
                           GreenFor(ew_density, total, min_green, max_green),
                       !.yellow_duration = yellow_time]
    /\ pc' = "run_phase"
    /\ step' = 1
    /\ UNCHANGED <<min_green, max_green, yellow_time, all_red_time, cycles,
                   realtime_delay, mode, ns_density, ew_density, c, rc,
                   exit_code, trace>>

compute_and_set_green == compute_zero \/ compute_share

(***************************************************************************)
(* IntersectionController::run_phase(ns, ew)                               *)
(***************************************************************************)
\* statements 1..12 of run_phase: odd ones are set_and_print calls, even ones
\* wait_and_print calls; firstGreen is bound to ns, second to ew
\* variant: East-West goes first
StepLightSwapped(k) == IF k <= 6 THEN "EW" ELSE "NS"

StepLight(k) == IF k <= 6 THEN "NS" ELSE "EW"

\* variant: the first direction is still YELLOW when the second one starts
StepStateFirstStaysYellow(k) ==
    IF k \in {1, 7} THEN "GREEN"
    ELSE IF k \in {3, 5, 9} THEN "YELLOW"
    ELSE "RED"

\* variant: YELLOW is shown before GREEN
StepStateYellowFirst(k) ==
    IF k \in {1, 7} THEN "YELLOW"
    ELSE IF k \in {3, 9} THEN "GREEN"
    ELSE "RED"

StepState(k) ==
    IF k \in {1, 7} THEN "GREEN"
    ELSE IF k \in {3, 9} THEN "YELLOW"
    ELSE "RED"

Light(name) == IF name = "NS" THEN ns ELSE ew

\* variant: no all-red wait after the second direction went RED
StepWaitNoSecondGap(k) ==
    IF k \in {2, 8} THEN Light(StepLight(k)).green_duration
    ELSE IF k \in {4, 10} THEN Light(StepLight(k)).yellow_duration
    ELSE IF k = 6 THEN all_red_time
    ELSE 0

\* variant: the second direction waits for the first direction's green
StepWaitFirstGreenTwice(k) ==
    IF k \in {2, 8} THEN ns.green_duration
    ELSE IF k \in {4, 10} THEN Light(StepLight(k)).yellow_duration
    ELSE all_red_time

\* argument of the wait_and_print call at statement k (k even)
StepWait(k) ==
    IF k \in {2, 8} THEN Light(StepLight(k)).green_duration
    ELSE IF k \in {4, 10} THEN Light(StepLight(k)).yellow_duration
    ELSE all_red_time

\* the number printed by set_and_print after "(will last "
Shown(tl, s) ==
    IF s = "GREEN" THEN tl.green_duration
    ELSE IF s = "YELLOW" THEN tl.yellow_duration
    ELSE NoDuration

\* variant: the two branches of the realtime_delay test are exchanged
WaitEffectInverted(seconds) ==
    IF seconds <= 0 THEN "none"
    ELSE IF realtime_delay THEN "print"
    ELSE "sleep"

\* what wait_and_print(seconds) does
WaitEffect(seconds) ==
    IF seconds <= 0 THEN "none"
    ELSE IF realtime_delay THEN "sleep"
    ELSE "print"

\* after statement 12 run_phase returns and the cycle loop does ++c
AfterStep ==
    IF step = 12
    THEN pc' = "sim_loop" /\ step' = 0 /\ c' = c + 1
    ELSE pc' = "run_phase" /\ step' = step + 1 /\ c' = c

\* variant: the light is passed by value, the member keeps its state
set_and_print_by_value ==
    /\ pc = "run_phase"
    /\ step % 2 = 1
    /\ LET name == StepLight(step)
           s    == StepState(step)
       IN  trace' = Append(trace,
                  [kind |-> "phase", light |-> name, state |-> s,
                   seconds |-> Shown(Light(name), s), effect |-> "print"])
    /\ AfterStep
    /\ UNCHANGED <<ns, ew, min_green, max_green, yellow_time, all_red_time,
                   cycles, realtime_delay, mode, ns_density, ew_density, rc,
                   exit_code>>

set_and_print ==
    /\ pc = "run_phase"
    /\ step % 2 = 1
    /\ LET name == StepLight(step)
           s    == StepState(step)
       IN  /\ IF name = "NS"
              THEN ns' = [ns EXCEPT !.state = s] /\ ew' = ew
              ELSE ew' = [ew EXCEPT !.state = s] /\ ns' = ns
           /\ trace' = Append(trace,
                  [kind |-> "phase", light |-> name, state |-> s,
                   seconds |-> Shown(Light(name), s), effect |-> "print"])
    /\ AfterStep
    /\ UNCHANGED <<min_green, max_green, yellow_time, all_red_time, cycles,
                   realtime_delay, mode, ns_density, ew_density, rc,
                   exit_code>>

wait_and_print ==
    /\ pc = "run_phase"
    /\ step % 2 = 0
    /\ LET seconds == StepWait(step)
       IN  trace' = Append(trace,
                  [kind |-> "wait", light |-> "-", state |-> "-",
                   seconds |-> seconds, effect |-> WaitEffect(seconds)])
    /\ AfterStep
    /\ UNCHANGED <<ns, ew, min_green, max_green, yellow_time, all_red_time,
                   cycles, realtime_delay, mode, ns_density, ew_density, rc,
                   exit_code>>

run_phase == set_and_print \/ wait_and_print

(***************************************************************************)
(* Specifications                                                          *)
(***************************************************************************)
Next ==
    \/ main_read_cycles_fail
    \/ main_read_cycles
    \/ main_construct
    \/ main_manual
    \/ main_random_draw
    \/ main_random_end
    \/ main_finish
    \/ simulate_next_cycle
    \/ simulate_return
    \/ compute_zero
    \/ compute_share
    \/ set_and_print
    \/ wait_and_print

\* a whole run of the program
Spec == Init /\ [][Next]_vars

\* the allocator alone: the controller stands at the compute_and_set_green
\* call of the first cycle, with any configuration and any density pair
InitAlloc ==
    /\ pc = "compute"
    /\ step = 0
    /\ \E cfg \in AllocConfigs :
          /\ min_green = cfg.min_green
          /\ max_green = cfg.max_green
          /\ yellow_time = cfg.yellow_time
          /\ all_red_time = cfg.all_red_time
          /\ ns = [TrafficLight EXCEPT !.yellow_duration = cfg.yellow_time]
          /\ ew = [TrafficLight EXCEPT !.yellow_duration = cfg.yellow_time]
    /\ cycles = 1
    /\ realtime_delay = FALSE
    /\ mode = 1
    /\ ns_density \in AllocDensities
    /\ ew_density \in AllocDensities
    /\ c = 1 /\ rc = 0
    /\ exit_code = 0 - 1
    /\ trace = <<>>

NextAlloc == compute_zero \/ compute_share

SpecAlloc == InitAlloc /\ [][NextAlloc]_vars


(***************************************************************************)
(* Vocabulary of the properties                                            *)
(***************************************************************************)
IsPhase(e) == e.kind = "phase"

\* the phase-transition events of the run so far, in order
PhaseEvents == SelectSeq(trace, IsPhase)

Other(name) == IF name = "NS" THEN "EW" ELSE "NS"

\* the order the documentation gives for the six events of a cycle
CycleOrder ==
    << <<"NS", "GREEN">>, <<"NS", "YELLOW">>, <<"NS", "RED">>,
       <<"EW", "GREEN">>, <<"EW", "YELLOW">>, <<"EW", "RED">> >>

\* the phase of a light after the first i entries of the trace
RECURSIVE StateAt(_, _)
StateAt(name, i) ==
    IF i = 0 THEN "RED"
    ELSE IF trace[i].kind = "phase" /\ trace[i].light = name
         THEN trace[i].state
         ELSE StateAt(name, i - 1)

Constructed == ns.state # "NONE"

\* cycles completed before the current one
CyclesDone == (IF mode = 1 THEN 0 ELSE rc * cycles) + (c - 1)

\* the allocator has just run
Allocated == pc = "run_phase" /\ step = 1

\* round-half-away-from-zero of the exact quotient p / q, p >= 0, q > 0
ExactRound(p, q) == (2 * p + q) \div (2 * q)

(***************************************************************************)
(* C1 - all-red gap: every transition to GREEN other than the first of the *)
(* run comes right after a wait_and_print(all_red_time) call, which itself  *)
(* comes right after the other light went RED, and both lights are RED     *)
(* during that wait; inside a cycle and from one cycle to the next.        *)
(***************************************************************************)
C1_AllRedGap ==
    \A i \in 1..Len(trace) :
        (trace[i].kind = "phase" /\ trace[i].state = "GREEN" /\ i > 1) =>
            /\ i >= 3
            /\ trace[i - 1].kind = "wait"
            /\ trace[i - 1].seconds = all_red_time
            /\ trace[i - 2].kind = "phase"
            /\ trace[i - 2].state = "RED"
            /\ trace[i - 2].light = Other(trace[i].light)
            /\ StateAt("NS", i - 1) = "RED"
            /\ StateAt("EW", i - 1) = "RED"

C1_Witness ==
    /\ all_red_time > 0
    /\ Len(trace) >= 13
    /\ trace[7].kind = "phase" /\ trace[7].light = "EW"
    /\ trace[7].state = "GREEN"
    /\ trace[13].kind = "phase" /\ trace[13].light = "NS"
    /\ trace[13].state = "GREEN"
    /\ ns.state = "GREEN" /\ ew.state = "RED"

(***************************************************************************)
(* C2 - every cycle emits exactly six phase-transition events, in the      *)
(* order NS-GREEN, NS-YELLOW, NS-RED, EW-GREEN, EW-YELLOW, EW-RED, the same *)
(* in every cycle and for all densities.                                   *)
(***************************************************************************)
C2_SixEventsInOrder ==
    /\ \A j \in 1..Len(PhaseEvents) :
          <<PhaseEvents[j].light, PhaseEvents[j].state>> =
              CycleOrder[((j - 1) % 6) + 1]
    /\ pc \in {"sim_loop", "compute"} => Len(PhaseEvents) = 6 * CyclesDone
    /\ pc = "run_phase" =>
          Len(PhaseEvents) = 6 * CyclesDone + (step \div 2)

C2_Witness ==
    /\ pc = "sim_loop"
    /\ Len(PhaseEvents) = 12
    /\ ns_density # ew_density
    /\ ns.green_duration # ew.green_duration

(***************************************************************************)
(* C3 - random mode with cycle count N runs exactly N cycles, 6N phase     *)
(* events, one freshly drawn density pair per cycle.                       *)
(***************************************************************************)
C3_RandomRunsNCycles ==
    (pc = "exited" /\ mode = 2) => Len(PhaseEvents) = 6 * cycles

(***************************************************************************)
(* C4 - after the allocator has run on any density pair both green         *)
(* durations lie in [min_green, max_green].                                *)
(***************************************************************************)
C4_AllocatedWithinBounds ==
    Allocated =>
        /\ min_green <= ns.green_duration /\ ns.green_duration <= max_green
        /\ min_green <= ew.green_duration /\ ew.green_duration <= max_green

C4_Witness ==
    /\ Allocated
    /\ ns_density < 0 /\ ew_density = 5
    /\ min_green < max_green
    /\ ns.green_duration = min_green /\ ew.green_duration = max_green

(***************************************************************************)
(* C5 - from construction onward, also before the first allocation, each   *)
(* light's green duration lies in [min_green, max_green].                  *)
(***************************************************************************)
C5_GreenAlwaysWithinBounds ==
    Constructed =>
        /\ min_green <= ns.green_duration /\ ns.green_duration <= max_green
        /\ min_green <= ew.green_duration /\ ew.green_duration <= max_green

(***************************************************************************)
(* C6 - for non-negative densities with a positive sum each green equals   *)
(* min_green + round(density * (max_green - min_green) / sum), rounding    *)
(* half away from zero, clamped to [min_green, max_green].                 *)
(***************************************************************************)
C6_ExactProportionalShare ==
    (Allocated /\ ns_density >= 0 /\ ew_density >= 0
               /\ ns_density + ew_density > 0) =>
        LET sum    == ns_density + ew_density
            budget == max_green - min_green
        IN  /\ ns.green_duration =
                  clamp(min_green + ExactRound(ns_density * budget, sum),
                        min_green, max_green)
            /\ ew.green_duration =
                  clamp(min_green + ExactRound(ew_density * budget, sum),
                        min_green, max_green)

(***************************************************************************)
(* C7 - when ns_density + ew_density = 0 the allocator sets both green     *)
(* durations to min_green.                                                 *)
(***************************************************************************)
C7_ZeroDensityGivesMinGreen ==
    (Allocated /\ ns_density + ew_density = 0) =>
        ns.green_duration = min_green /\ ew.green_duration = min_green

C7_Witness ==
    /\ Allocated
    /\ ns_density = 0 /\ ew_density = 0
    /\ min_green = 5 /\ max_green = 40
    /\ ns.green_duration = 5 /\ ew.green_duration = 5

(***************************************************************************)
(* C8 - when only one direction has traffic it receives max_green and the  *)
(* other one min_green; allocate(100, 0, 5, 40) = (40, 5).                 *)
(***************************************************************************)
C8_SingleDirectionGetsMax ==
    Allocated =>
        /\ (ns_density > 0 /\ ew_density = 0) =>
              ns.green_duration = max_green /\ ew.green_duration = min_green
        /\ (ew_density > 0 /\ ns_density = 0) =>
              ew.green_duration = max_green /\ ns.green_duration = min_green

C8_Witness ==
    /\ Allocated
    /\ ns_density = 100 /\ ew_density = 0
    /\ min_green = 5 /\ max_green = 40
    /\ ns.green_duration = 40 /\ ew.green_duration = 5

(***************************************************************************)
(* C9 - equal positive densities give both directions the same green, the  *)
(* half-way share being rounded away from zero;                            *)
(* allocate(50, 50, 5, 40) = (23, 23).                                     *)
(***************************************************************************)
C9_EqualDensitiesTieAwayFromZero ==
    (Allocated /\ ns_density = ew_density /\ ns_density > 0) =>
        /\ ns.green_duration = ew.green_duration
        /\ 2 * (ns.green_duration - min_green) \in
              {max_green - min_green, max_green - min_green + 1}
        /\ (ns_density = 50 /\ min_green = 5 /\ max_green = 40) =>
              ns.green_duration = 23 /\ ew.green_duration = 23

C9_Witness ==
    /\ Allocated
    /\ ns_density = 50 /\ ew_density = 50
    /\ min_green = 5 /\ max_green = 40
    /\ ns.green_duration = 23 /\ ew.green_duration = 23

(***************************************************************************)
(* C10 - every phase transition is immediately followed by exactly one     *)
(* wait_and_print call carrying that phase's duration: after GREEN the      *)
(* green allocated in this cycle for that direction, after YELLOW           *)
(* yellow_time, after RED all_red_time.  As amended: in fast mode the       *)
(* duration is emitted for each call whose duration is positive, and a      *)
(* call with a duration of 0 emits nothing.                                 *)
(***************************************************************************)
\* what compute_and_set_green gives a direction for the current density pair
AllocatedGreen(name) ==
    LET d     == IF name = "NS" THEN ns_density ELSE ew_density
        total == Total(ns_density, ew_density)
    IN  IF total <= 0 THEN min_green
        ELSE GreenFor(d, total, min_green, max_green)

\* the duration of the phase entered by the event trace[i]
ExpectedWait(i) ==
    IF trace[i].state = "GREEN"
    THEN IF pc = "run_phase" /\ i > 12 * CyclesDone
         THEN AllocatedGreen(trace[i].light)
         ELSE trace[i].seconds
    ELSE IF trace[i].state = "YELLOW" THEN yellow_time
    ELSE all_red_time

\* trace[i] is a phase event followed by exactly one call with its duration
OneWaitFollows(i) ==
    /\ i = Len(trace) => (pc = "run_phase" /\ step % 2 = 0)
    /\ i < Len(trace) =>
          /\ trace[i + 1].kind = "wait"
          /\ trace[i + 1].seconds = ExpectedWait(i)
          /\ i + 2 <= Len(trace) => trace[i + 2].kind = "phase"

\* the claim as stated: in fast mode every one of the durations is emitted
C10_EveryWaitEmitted ==
    \A i \in 1..Len(trace) :
        trace[i].kind = "phase" =>
            /\ OneWaitFollows(i)
            /\ (i < Len(trace) /\ ~realtime_delay) =>
                  trace[i + 1].effect = "print"

C10_PositiveWaitEmitted ==
    \A i \in 1..Len(trace) :
        trace[i].kind = "phase" =>
            /\ OneWaitFollows(i)
            /\ (i < Len(trace) /\ ~realtime_delay) =>
                  /\ trace[i + 1].seconds > 0 => trace[i + 1].effect = "print"
                  /\ trace[i + 1].seconds = 0 => trace[i + 1].effect = "none"

C10_Witness ==
    /\ pc = "sim_loop"
    /\ ~realtime_delay
    /\ Len(trace) = 24
    /\ ns.green_duration # ew.green_duration
    /\ \E i \in 1..Len(trace) :
          trace[i].kind = "wait" /\ trace[i].effect = "none"
    /\ \E i \in 1..Len(trace) :
          trace[i].kind = "wait" /\ trace[i].effect = "print"


(***************************************************************************)
(* C11 - manual mode with cycle count N: once the densities are read the   *)
(* run terminates after exactly N cycles (6N phase events) with both lights *)
(* RED, and the one density pair entered is used for every cycle, so every  *)
(* cycle waits the same green durations.  Termination: every step strictly  *)
(* decreases the number of statements left, which is 0 at the exit.         *)
(***************************************************************************)
\* statements of a manual run still to execute
ManualRemaining ==
    IF pc = "exited" THEN 0
    ELSE IF pc = "finish" THEN 1
    ELSE IF pc = "sim_loop" THEN 14 * (cycles + 1 - c) + 2
    ELSE IF pc = "compute" THEN 14 * (cycles + 1 - c) + 1
    ELSE 14 * (cycles + 1 - c) + 1 - step

ManualRunFinal ==
    /\ (mode = 1 /\ pc \in {"sim_loop", "compute", "run_phase", "finish"}) =>
          ManualRemaining > 0
    /\ (pc = "exited" /\ mode = 1) =>
          /\ Len(PhaseEvents) = 6 * cycles
          /\ Len(trace) = 12 * cycles
          /\ ns.state = "RED" /\ ew.state = "RED"
          /\ \A i \in 1..Len(trace) :
                (trace[i].kind = "phase" /\ trace[i].state = "GREEN") =>
                    /\ trace[i].seconds = AllocatedGreen(trace[i].light)
                    /\ trace[i + 1].seconds = AllocatedGreen(trace[i].light)

ManualRunProgress ==
    (mode = 1 /\ pc \in {"sim_loop", "compute", "run_phase", "finish"}) =>
        /\ ManualRemaining' < ManualRemaining
        /\ ns_density' = ns_density /\ ew_density' = ew_density

C11_ManualRunTerminates ==
    /\ [] ManualRunFinal
    /\ [][ManualRunProgress]_vars

C11_Witness ==
    /\ pc = "exited" /\ mode = 1 /\ ~realtime_delay
    /\ cycles = 2
    /\ Len(PhaseEvents) = 12
    /\ ns.state = "RED" /\ ew.state = "RED"
    /\ ns.green_duration # ew.green_duration


(***************************************************************************)
(* C12 - a run with cycle_count = 0 produces no phase-transition event and *)
(* no wait, in manual and in random mode, and goes straight to its         *)
(* finished state (exit code 0).                                           *)
(***************************************************************************)
ZeroCycleRun == Constructed /\ cycles = 0

ZeroCycleQuiet ==
    ZeroCycleRun =>
        /\ trace = <<>>
        /\ pc \in {"manual_input", "random_loop", "sim_loop", "finish", "exited"}
        /\ ns.state = "RED" /\ ew.state = "RED"
        /\ pc = "exited" => exit_code = 0

ZeroCycleStep ==
    ZeroCycleRun =>
        \/ pc = "manual_input" /\ pc' = "sim_loop"
        \/ pc = "sim_loop" /\ pc' = "finish"
        \/ pc = "random_loop" /\ pc' = "finish"
        \/ pc = "finish" /\ pc' = "exited"

C12_ZeroCyclesNoEvents ==
    /\ [] ZeroCycleQuiet
    /\ [][ZeroCycleStep]_vars

C12_Witness ==
    /\ ZeroCycleRun
    /\ mode = 2
    /\ pc = "exited" /\ exit_code = 0
    /\ trace = <<>>

(***************************************************************************)
(* C13 - in fast mode (realtime_delay = false) no blocking sleep ever      *)
(* occurs, whatever the durations; blocking happens only in real-time mode. *)
(***************************************************************************)
C13_NoSleepInFastMode ==
    \A i \in 1..Len(trace) :
        trace[i].effect = "sleep" =>
            realtime_delay /\ trace[i].kind = "wait" /\ trace[i].seconds > 0

C13_Witness ==
    /\ ~realtime_delay
    /\ pc = "exited"
    /\ Len(trace) = 24
    /\ \A i \in 1..Len(trace) : trace[i].effect # "sleep"
    /\ \E i \in 1..Len(trace) :
          trace[i].kind = "wait" /\ trace[i].seconds = 40


(***************************************************************************)
(* C14 - each light follows only RED -> GREEN -> YELLOW -> RED: it is RED   *)
(* at construction, turns GREEN only from RED, YELLOW only from GREEN, RED  *)
(* only from YELLOW, and makes exactly one full pass per cycle.            *)
(***************************************************************************)
PhaseBefore(s) ==
    IF s = "GREEN" THEN "RED" ELSE IF s = "YELLOW" THEN "GREEN" ELSE "YELLOW"

\* number of events of a light showing state s among the first i trace entries
RECURSIVE CountPhase(_, _, _)
CountPhase(name, s, i) ==
    IF i = 0 THEN 0
    ELSE CountPhase(name, s, i - 1) +
         (IF trace[i].kind = "phase" /\ trace[i].light = name
             /\ trace[i].state = s THEN 1 ELSE 0)

C14_LightPhaseOrder ==
    /\ Constructed =>
          /\ ns.state = StateAt("NS", Len(trace))
          /\ ew.state = StateAt("EW", Len(trace))
    /\ \A i \in 1..Len(trace) :
          trace[i].kind = "phase" =>
              StateAt(trace[i].light, i - 1) = PhaseBefore(trace[i].state)
    /\ pc \in {"sim_loop", "compute"} =>
          \A name \in {"NS", "EW"}, s \in {"GREEN", "YELLOW", "RED"} :
              CountPhase(name, s, Len(trace)) = CyclesDone

C14_Witness ==
    /\ pc = "sim_loop"
    /\ CyclesDone = 2
    /\ CountPhase("EW", "YELLOW", Len(trace)) = 2
    /\ ns.state = "RED" /\ ew.state = "RED"

(***************************************************************************)
(* C15 - each light's yellow duration equals the configured yellow_time in *)
(* every state after construction, on the zero-density path of the         *)
(* allocator as well as on the proportional one.                           *)
(***************************************************************************)
C15_YellowConstant ==
    Constructed =>
        /\ ns.yellow_duration = yellow_time
        /\ ew.yellow_duration = yellow_time
        /\ \A i \in 1..Len(trace) :
              (trace[i].kind = "phase" /\ trace[i].state = "YELLOW") =>
                  trace[i].seconds = yellow_time

\* a random run whose first pair was (0, 0) and whose current pair is not
C15_Witness ==
    /\ yellow_time = 2 /\ max_green = 3
    /\ mode = 2 /\ rc = 1 /\ pc = "sim_loop" /\ c = 2
    /\ ns_density + ew_density > 0
    /\ trace[1].seconds = 0 /\ trace[7].seconds = 0
    /\ ns.green_duration + ew.green_duration > 0
    /\ ns.yellow_duration = 2 /\ ew.yellow_duration = 2

(***************************************************************************)
(* C16 - when the first prompt (cycle count) gets malformed input or EOF   *)
(* the run ends at once with exit code 0: no controller, no cycle, no      *)
(* phase-transition event.                                                 *)
(***************************************************************************)
AbortedAtFirstPrompt == pc = "exited" /\ cycles = 0 /\ mode = 0

C16_FirstPromptAbort ==
    /\ ~Constructed =>
          /\ trace = <<>>
          /\ pc \in {"read_cycles", "read_options", "exited"}
    /\ AbortedAtFirstPrompt =>
          /\ exit_code = 0
          /\ ~Constructed
          /\ trace = <<>>
          /\ c = 0 /\ rc = 0

C16_Witness ==
    /\ AbortedAtFirstPrompt
    /\ exit_code = 0
    /\ ns = NoLight /\ ew = NoLight
    /\ trace = <<>>


(***************************************************************************)
(* A random-mode run of main() with two draws, the second draw being the   *)
(* first one swapped: the controller allocates (a, b) and then (b, a).     *)
(***************************************************************************)
SwapDensities == 0..MaxSwapDensity

\* main() up to the random loop: cycles = 2, mode = 2, fast output
InitSwap ==
    /\ pc = "random_loop"
    /\ step = 0
    /\ ns = [TrafficLight EXCEPT !.yellow_duration = MainConfig.yellow_time]
    /\ ew = [TrafficLight EXCEPT !.yellow_duration = MainConfig.yellow_time]
    /\ min_green = MainConfig.min_green
    /\ max_green = MainConfig.max_green
    /\ yellow_time = MainConfig.yellow_time
    /\ all_red_time = MainConfig.all_red_time
    /\ cycles = 2
    /\ realtime_delay = FALSE
    /\ mode = 2
    /\ ns_density = 0 /\ ew_density = 0
    /\ c = 0 /\ rc = 0
    /\ exit_code = 0 - 1
    /\ trace = <<>>

\* the draws of the random loop in which the second pair is the first swapped
main_random_draw_swapped ==
    /\ pc = "random_loop"
    /\ rc < cycles
    /\ \E a \in SwapDensities, b \in SwapDensities :
          /\ rc > 0 => (a = ew_density /\ b = ns_density)
          /\ ns_density' = a /\ ew_density' = b
    /\ c' = 1
    /\ pc' = "sim_loop"
    /\ UNCHANGED <<step, ns, ew, min_green, max_green, yellow_time,
                   all_red_time, cycles, realtime_delay, mode, rc,
                   exit_code, trace>>

NextSwap ==
    \/ main_random_draw_swapped
    \/ main_random_end
    \/ main_finish
    \/ simulate_next_cycle
    \/ simulate_return
    \/ compute_zero
    \/ compute_share
    \/ set_and_print
    \/ wait_and_print

SpecSwap == InitSwap /\ [][NextSwap]_vars

(***************************************************************************)
(* C17 - extra_budget = max_green - min_green is the maximum extra green   *)
(* distributed in a cycle: (ns_green - min_green) + (ew_green - min_green)  *)
(* <= max_green - min_green for every non-negative density pair.           *)
(***************************************************************************)
C17_ExtraWithinBudget ==
    (Allocated /\ ns_density >= 0 /\ ew_density >= 0) =>
        (ns.green_duration - min_green) + (ew.green_duration - min_green)
            <= max_green - min_green

(***************************************************************************)
(* C18 - mutual exclusion: at most one of the two lights is not RED, and   *)
(* both lights are RED at the start and at the end of every cycle.         *)
(***************************************************************************)
C18_MutualExclusion ==
    Constructed =>
        /\ ns.state = "RED" \/ ew.state = "RED"
        /\ ns.state \in {"GREEN", "YELLOW"} => ew.state = "RED"
        /\ ew.state \in {"GREEN", "YELLOW"} => ns.state = "RED"
        /\ (pc # "run_phase" \/ step \in {1, 12}) =>
              ns.state = "RED" /\ ew.state = "RED"

C18_Witness ==
    /\ pc = "run_phase" /\ step = 10
    /\ ns.state = "RED" /\ ew.state = "YELLOW"
    /\ CyclesDone = 1

(***************************************************************************)
(* C19 - frame: a phase-transition step changes the phase of exactly one   *)
(* light and leaves the other light's phase and all four durations         *)
(* unchanged; a wait changes no light; green durations change only in the  *)
(* allocation step at the start of a cycle.                                *)
(***************************************************************************)
DurationsUnchanged ==
    /\ ns'.green_duration = ns.green_duration
    /\ ew'.green_duration = ew.green_duration
    /\ ns'.yellow_duration = ns.yellow_duration
    /\ ew'.yellow_duration = ew.yellow_duration

PhaseStepFrame ==
    /\ (pc = "run_phase" /\ step % 2 = 1) =>
          /\ DurationsUnchanged
          /\ (ns'.state # ns.state) # (ew'.state # ew.state)
          /\ Len(trace') = Len(trace) + 1
          /\ trace'[Len(trace')].kind = "phase"
          /\ Light(trace'[Len(trace')].light).state # trace'[Len(trace')].state
    /\ (pc = "run_phase" /\ step % 2 = 0) => (ns' = ns /\ ew' = ew)
    /\ (pc = "run_phase" /\ step \in {2, 8}) =>
          trace'[Len(trace')].seconds = AllocatedGreen(StepLight(step - 1))
    /\ (Constructed /\ pc # "compute") =>
          (DurationsUnchanged /\ (pc # "run_phase" => ns' = ns /\ ew' = ew))
    /\ pc = "compute" => (ns'.state = ns.state /\ ew'.state = ew.state)

GreenIsAllocated ==
    pc = "run_phase" =>
        /\ ns.green_duration = AllocatedGreen("NS")
        /\ ew.green_duration = AllocatedGreen("EW")

C19_Frame == [] GreenIsAllocated /\ [][PhaseStepFrame]_vars

C19_Witness ==
    /\ pc = "run_phase" /\ step = 8
    /\ ns.state = "RED" /\ ew.state = "GREEN"
    /\ ns.green_duration # ew.green_duration
    /\ ns.green_duration # 10


(***************************************************************************)
(* C20 - allocator symmetry and monotonicity: for non-negative densities   *)
(* a, b, allocating (b, a) gives the swapped result of allocating (a, b),  *)
(* and if a >= b then ns_green >= ew_green.                                *)
(***************************************************************************)
C20_SymmetricAndMonotonic ==
    (pc = "run_phase" /\ ns_density >= 0 /\ ew_density >= 0) =>
        /\ ns_density >= ew_density => ns.green_duration >= ew.green_duration
        /\ ew_density >= ns_density => ew.green_duration >= ns.green_duration
        \* trace[1] and trace[7] are the GREEN events of the first draw
        /\ rc = 1 =>
              /\ trace[1].light = "NS" /\ trace[1].state = "GREEN"
              /\ trace[7].light = "EW" /\ trace[7].state = "GREEN"
              /\ ns.green_duration = trace[7].seconds
              /\ ew.green_duration = trace[1].seconds

C20_Witness ==
    /\ pc = "run_phase" /\ step = 1 /\ rc = 1
    /\ ns_density = 10 /\ ew_density = 30
    /\ ns.green_duration < ew.green_duration
    /\ trace[1].seconds = ew.green_duration
    /\ trace[7].seconds = ns.green_duration

====
